---- MODULE Spec2Model ----
(***************************************************************************)
(* Tag-context extraction of tagextract.py (indentation-scoped variant)    *)
(* and tagextract_sojusnik.py (flat/checkbox variant).                     *)
(*                                                                         *)
(* A document is a sequence of lines.  A line is a record                  *)
(*   [sp, tb, toks]: sp leading spaces, tb leading tabs, and the sequence  *)
(* of lexical units that follow the indentation:                           *)
(*   "w"   a word of plain text                                            *)
(*   "hd"  a heading in the selected dialect ("# Title" / "== Title ==");  *)
(*         the heading patterns are anchored at column 0                   *)
(*   "img" an image/embed reference ("![a](b)" / "{{path}}")               *)
(*   "cb"  a checkbox marker ("[ ]", "[*]", "[x]")                         *)
(*   "@p"  a tag: the sigil followed by a name                             *)
(* Line indices are 0-based as in the source: Line(ii) is lines[ii].       *)
(* Indentation levels are the rationals spclen/tab_width; the model keeps  *)
(* the numerator spclen and multiplies the thresholds by TabWidth.         *)
(***************************************************************************)
EXTENDS Integers, Sequences, FiniteSets, TLC

VARIABLES variant, lines, tag, fileout, pc, tagdict, key, k, up, down,
          result_idx, newtext

vars == <<variant, lines, tag, fileout, pc, tagdict, key, k, up, down,
          result_idx, newtext>>

\* ---------------------------------------------------------------- bounds
MaxLines == 3

\* ------------------------------------------------------------- constants
TabWidth == 4

Sigil == "@"
Names == {"p", "q"}
TagToks == {Sigil \o n : n \in Names}

KeyError == "KeyError"

\* ------------------------------------------------------------ documents
Ln(sp, tb, toks) == [sp |-> sp, tb |-> tb, toks |-> toks]

Alphabet ==
  { Ln(0, 0, <<>>),
    Ln(0, 0, <<"w">>), Ln(2, 0, <<"w">>), Ln(0, 1, <<"w">>), Ln(8, 0, <<"w">>),
    Ln(0, 0, <<"@p", "w">>), Ln(4, 0, <<"@p", "w">>), Ln(8, 0, <<"@p", "w">>),
    Ln(0, 0, <<"@p">>),
    Ln(0, 0, <<"@q", "w">>),
    Ln(0, 0, <<"img">>),
    Ln(0, 0, <<"hd">>), Ln(0, 0, <<"hd", "img">>), Ln(0, 0, <<"hd", "@p">>),
    Ln(0, 0, <<"cb", "w">>) }

Docs == UNION { [1..n -> Alphabet] : n \in 1..MaxLines }

Requests == Names \cup TagToks

Line(ii) == lines[ii + 1]

NLines == Len(lines)

Abs(x) == IF x < 0 THEN -x ELSE x

ToSet(s) == { s[i] : i \in 1..Len(s) }

RECURSIVE Reverse(_)
Reverse(s) == IF s = <<>> THEN <<>> ELSE Append(Reverse(Tail(s)), Head(s))

\* --------------------------------------------- line classification (V1)
\* spclen of space2tab: the level is spclen / TabWidth
spclen(l) == l.sp + TabWidth * l.tb

\* _tab_re needs a non-blank character after the leading whitespace
space2tab(l) == IF l.toks # <<>> /\ l.sp + l.tb > 0 THEN spclen(l) ELSE 0

isHeader(l) == l.toks # <<>> /\ l.sp + l.tb = 0 /\ l.toks[1] = "hd"

isEmpty(l) == l.toks = <<>>

isImg(l) == \E i \in 1..Len(l.toks) : l.toks[i] = "img"

IsTagTok(t) == t \in TagToks

\* the group captured by _tag_re: the name after the sigil
Capture(t) == CHOOSE n \in Names : Sigil \o n = t

\* _tag_re.findall(line): the captured names, in order
findall(l) ==
  LET ts == SelectSeq(l.toks, IsTagTok)
  IN [i \in 1..Len(ts) |-> Capture(ts[i])]


\* ------------------------------------------------ upward scan (V1)
\* searchUp's locals before the loop; ret = 0 while the loop runs, and the
\* source line of the return statement once it has returned
UpInit_empty(i) ==
  [ii |-> i - 1, sameblock |-> TRUE, result_idx |-> <<>>, ret |-> 0]

UpInit(i) ==
  [ii |-> i - 1, sameblock |-> TRUE, result_idx |-> <<i>>, ret |-> 0]

sameblockUp_ge(sb, tablvl, L) ==
  IF sb /\ Abs(tablvl - L) >= TabWidth THEN FALSE ELSE sb

\* "Check indent level change"
sameblockUp(sb, tablvl, L) ==
  IF sb /\ Abs(tablvl - L) > TabWidth THEN FALSE ELSE sb

stopLowerUp_sb(sb, tablvl, L) == tablvl - L >= TabWidth /\ sb

\* "Stop at a lower indent level"
stopLowerUp(sb, tablvl, L) == tablvl - L >= TabWidth /\ ~sb

\* "Include and stop at any heading"
headerUp(s) == [s EXCEPT !.result_idx = Append(@, s.ii), !.ret = 139]

\* one iteration of searchUp's loop (or the loop's exit)
searchUp_iter(s, L) ==
  IF s.ii < 0 THEN [s EXCEPT !.ret = 167]
  ELSE
    LET ii == s.ii
        lineii == Line(ii)
        tablvl == space2tab(lineii)
        sb == sameblockUp(s.sameblock, tablvl, L)
        tagsatline == findall(lineii)
        inc == [s EXCEPT !.result_idx = Append(@, ii), !.ii = ii - 1]
    IN IF isEmpty(lineii) THEN inc
       ELSE IF isImg(lineii) THEN inc
       ELSE IF isHeader(lineii) THEN headerUp(s)
       ELSE IF stopLowerUp(sb, tablvl, L)
         THEN [s EXCEPT !.sameblock = sb, !.ret = 146]
       ELSE IF Len(tagsatline) > 0 /\ sb
         THEN [inc EXCEPT !.sameblock = sb]
       ELSE IF Len(tagsatline) > 0 /\ ~sb
         THEN [s EXCEPT !.sameblock = sb, !.ret = 157]
       ELSE IF L - tablvl >= 2 * TabWidth
         THEN [s EXCEPT !.sameblock = sb, !.ret = 161]
       ELSE IF L - tablvl <= TabWidth \/ L = 0
         THEN [inc EXCEPT !.sameblock = sb]
       ELSE [s EXCEPT !.sameblock = sb, !.ii = ii - 1]

\* ---------------------------------------------- downward scan (V1)
DownInit(i) ==
  [ii |-> i + 1, sameblock |-> TRUE, result_idx |-> <<>>, ret |-> 0]

sameblockDown(sb, tablvl, L) ==
  IF sb /\ Abs(tablvl - L) >= TabWidth THEN FALSE ELSE sb

imgDown_stop(s) == [s EXCEPT !.result_idx = Append(@, s.ii), !.ret = 184]

\* the image branch: append and continue
imgDown(s) == [s EXCEPT !.result_idx = Append(@, s.ii), !.ii = s.ii + 1]

searchDown_iter(s, L) ==
  IF s.ii >= NLines THEN [s EXCEPT !.ret = 205]
  ELSE
    LET ii == s.ii
        lineii == Line(ii)
        tablvl == space2tab(lineii)
        sb == sameblockDown(s.sameblock, tablvl, L)
        tagsatline == findall(lineii)
        inc == [s EXCEPT !.result_idx = Append(@, ii), !.ii = ii + 1]
    IN IF isEmpty(lineii) THEN inc
       ELSE IF isImg(lineii) THEN imgDown(s)
       ELSE IF isHeader(lineii) THEN [s EXCEPT !.ret = 186]
       ELSE IF L - tablvl > 0
         THEN [s EXCEPT !.sameblock = sb, !.ret = 193]
       ELSE IF Len(tagsatline) > 0 /\ sb
         THEN [s EXCEPT !.sameblock = sb, !.ii = ii + 1]
       ELSE IF tablvl >= L
         THEN [inc EXCEPT !.sameblock = sb]
       ELSE [s EXCEPT !.sameblock = sb, !.ii = ii + 1]

\* ------------------------------------------------- tag index (V1)
RECURSIVE Repeat(_, _)
Repeat(x, n) == IF n = 0 THEN <<>> ELSE <<x>> \o Repeat(x, n - 1)

Count(x, s) == Cardinality({ i \in 1..Len(s) : s[i] = x })

\* the occurrences [ll, taglvl] appended for tagii over lines[0 .. n-1]
RECURSIVE OccsUpTo(_, _)
OccsUpTo(tagii, n) ==
  IF n = 0 THEN <<>>
  ELSE OccsUpTo(tagii, n - 1)
         \o Repeat(<<n - 1, space2tab(Line(n - 1))>>,
                   Count(tagii, findall(Line(n - 1))))

findAllTags ==
  LET keys == UNION { ToSet(findall(Line(ll))) : ll \in 0..(NLines - 1) }
  IN [tagii \in keys |-> OccsUpTo(tagii, NLines)]


\* ----------------------- lib.textparse.TextParser (flat/checkbox variant)
tp_space2tab(l) == IF l.toks # <<>> /\ l.sp + l.tb > 0 THEN spclen(l) ELSE 0

tp_isHeader(l) == l.toks # <<>> /\ l.sp + l.tb = 0 /\ l.toks[1] = "hd"

tp_isEmpty(l) == l.toks = <<>>

tp_isImg(l) == \E i \in 1..Len(l.toks) : l.toks[i] = "img"

\* the canonical tag keys of a line: sigil plus token, in order
tp_findTags(l) == SelectSeq(l.toks, IsTagTok)

\* tp.findTags applied to the requested tag string
tp_findTagsStr(t) == IF t \in TagToks THEN <<t>> ELSE <<>>

\* left-justify: strip the minimum indentation of the non-blank lines
tp_leftJust(ls) ==
  LET nb == { i \in 1..Len(ls) : ~tp_isEmpty(ls[i]) }
      lv(i) == tp_space2tab(ls[i])
      m == IF nb = {} THEN 0
           ELSE CHOOSE x \in { lv(i) : i \in nb } : \A j \in nb : x <= lv(j)
  IN [i \in 1..Len(ls) |->
        IF i \in nb THEN Ln(lv(i) - m, 0, ls[i].toks) ELSE ls[i]]

\* --------------------------------------------- upward scan (sojusnik)
isCheck(l) == \E i \in 1..Len(l.toks) : l.toks[i] = "cb"

\* linecp: the line with every tag of taginline replaced by u''
StripTags(l) == [l EXCEPT !.toks = SelectSeq(@, LAMBDA t : ~IsTagTok(t))]

UpInit_sj(i) == [ii |-> i, result_idx |-> <<>>, ret |-> 0]

searchUp_sj_iter(s, tg) ==
  IF s.ii < 0 THEN [s EXCEPT !.ret = 92]
  ELSE
    LET ii == s.ii
        lineii == Line(ii)
        taginline == tp_findTags(lineii)
        inc == [s EXCEPT !.result_idx = Append(@, ii), !.ii = ii - 1]
        cont == [s EXCEPT !.ii = ii - 1]
    IN IF isCheck(lineii) THEN inc
       ELSE IF tp_isImg(lineii) THEN inc
       ELSE IF Len(taginline) > 0 /\ tg \in ToSet(taginline)
         THEN IF ~tp_isEmpty(StripTags(lineii)) THEN inc ELSE cont
       ELSE IF tp_isHeader(lineii)
         THEN [s EXCEPT !.result_idx = Append(@, ii), !.ret = 85]
       ELSE IF tp_isEmpty(lineii) THEN [s EXCEPT !.ret = 89]
       ELSE cont

\* ------------------------------------------- downward scan (sojusnik)
DownInit_sj(i) == [ii |-> i + 1, result_idx |-> <<>>, ret |-> 0]

searchDown_sj_iter(s) ==
  IF s.ii >= NLines THEN [s EXCEPT !.ret = 112]
  ELSE
    LET ii == s.ii
        lineii == Line(ii)
    IN IF tp_isEmpty(lineii)
         THEN [s EXCEPT !.result_idx = Append(@, ii), !.ret = 104]
       ELSE IF tp_isImg(lineii)
         THEN [s EXCEPT !.result_idx = Append(@, ii), !.ii = ii + 1]
       ELSE IF tp_isHeader(lineii) THEN [s EXCEPT !.ret = 110]
       ELSE [s EXCEPT !.ii = ii + 1]

\* ---------------------------------------------- tag index (sojusnik)
RECURSIVE OccsUpTo_sj(_, _)
OccsUpTo_sj(tagii, n) ==
  IF n = 0 THEN <<>>
  ELSE OccsUpTo_sj(tagii, n - 1)
         \o Repeat(<<n - 1, tp_space2tab(Line(n - 1))>>,
                   Count(tagii, tp_findTags(Line(n - 1))))

findAllTags_sj ==
  LET keys == UNION { ToSet(tp_findTags(Line(ll))) : ll \in 0..(NLines - 1) }
  IN [tagii \in keys |-> OccsUpTo_sj(tagii, NLines)]

\* "Preprend @ if not given"
Normalize(t) == IF Len(tp_findTagsStr(t)) = 0 THEN Sigil \o t ELSE t


\* ------------------------------------------------------ extraction
V1 == "tagextract"
V2 == "tagextract_sojusnik"

NoScan == [ii |-> -1, result_idx |-> <<>>, ret |-> 0]

NoText == [none |-> TRUE, text |-> <<>>]

Absent == [exists |-> FALSE, written |-> FALSE, header |-> "", text |-> <<>>]
Old == [exists |-> TRUE, written |-> FALSE, header |-> "", text |-> <<>>]

\* the occurrence [lineidx, lvl] being scanned
Occ == tagdict[key][k]
lineidx == Occ[1]
lvl == Occ[2]

\* "linesabove.reverse()" and the two guarded extends
Merged(acc, linesabove, linesbelow) ==
  LET above == Reverse(linesabove)
      r1 == IF ToSet(above) \subseteq ToSet(acc) THEN acc ELSE acc \o above
  IN IF ToSet(linesbelow) \subseteq ToSet(r1) THEN r1 ELSE r1 \o linesbelow

\* ascending order of a set of line indices
RECURSIVE Sorted(_)
Sorted(S) ==
  IF S = {} THEN <<>>
  ELSE LET m == CHOOSE x \in S : \A y \in S : x <= y
       IN <<m>> \o Sorted(S \ {m})

\* first-insertion order of a list, duplicates dropped
RECURSIVE Dedup(_)
Dedup(s) ==
  IF s = <<>> THEN <<>>
  ELSE LET r == Dedup(SubSeq(s, 1, Len(s) - 1))
       IN IF s[Len(s)] \in ToSet(r) THEN r ELSE Append(r, s[Len(s)])

\* "for ii in set(result_idx)": the iteration order of a set is not defined
\* by the language.  The builds give the hash order, which is ascending for
\* line indices below the table size, or the insertion order (ordered sets).
SetIterOrders(s) == { Sorted(ToSet(s)), Dedup(s) }

Text(order, ls) == [i \in 1..Len(order) |-> [idx |-> order[i], line |-> ls[i]]]

Init ==
  /\ variant \in {V1, V2}
  /\ lines \in Docs
  /\ tag \in Requests
  /\ fileout \in {Absent, Old}
  /\ pc = "main"
  /\ tagdict = <<>>
  /\ key = tag
  /\ k = 0
  /\ up = NoScan
  /\ down = NoScan
  /\ result_idx = <<>>
  /\ newtext = NoText

\* main -> extractTag: preprocess, findAllTags, tagdict[tag]
extractTag_begin ==
  /\ pc = "main" /\ variant = V1
  /\ tagdict' = findAllTags
  /\ IF tag \in DOMAIN findAllTags
       THEN /\ pc' = "up"
            /\ k' = 1
            /\ up' = UpInit(findAllTags[tag][1][1])
            /\ down' = DownInit(findAllTags[tag][1][1])
       ELSE /\ pc' = KeyError
            /\ UNCHANGED <<k, up, down>>
  /\ UNCHANGED <<variant, lines, tag, fileout, key, result_idx, newtext>>

extractTag_sj_begin ==
  /\ pc = "main" /\ variant = V2
  /\ tagdict' = findAllTags_sj
  /\ key' = Normalize(tag)
  /\ IF Normalize(tag) \in DOMAIN findAllTags_sj
       THEN /\ pc' = "up"
            /\ k' = 1
            /\ up' = UpInit_sj(findAllTags_sj[Normalize(tag)][1][1])
            /\ down' = DownInit_sj(findAllTags_sj[Normalize(tag)][1][1])
       ELSE /\ pc' = "return"
            /\ UNCHANGED <<k, up, down>>
  /\ UNCHANGED <<variant, lines, tag, fileout, result_idx, newtext>>

searchUp ==
  /\ pc = "up" /\ variant = V1
  /\ up' = searchUp_iter(up, lvl)
  /\ pc' = IF up'.ret # 0 THEN "down" ELSE "up"
  /\ UNCHANGED <<variant, lines, tag, fileout, tagdict, key, k, down,
                 result_idx, newtext>>

searchDown ==
  /\ pc = "down" /\ variant = V1
  /\ down' = searchDown_iter(down, lvl)
  /\ pc' = IF down'.ret # 0 THEN "merge" ELSE "down"
  /\ UNCHANGED <<variant, lines, tag, fileout, tagdict, key, k, up,
                 result_idx, newtext>>

searchUp_sj ==
  /\ pc = "up" /\ variant = V2
  /\ up' = searchUp_sj_iter(up, key)
  /\ pc' = IF up'.ret # 0 THEN "down" ELSE "up"
  /\ UNCHANGED <<variant, lines, tag, fileout, tagdict, key, k, down,
                 result_idx, newtext>>

searchDown_sj ==
  /\ pc = "down" /\ variant = V2
  /\ down' = searchDown_sj_iter(down)
  /\ pc' = IF down'.ret # 0 THEN "merge" ELSE "down"
  /\ UNCHANGED <<variant, lines, tag, fileout, tagdict, key, k, up,
                 result_idx, newtext>>

\* the rest of the loop body over tagdict[tag], and the next occurrence
extend ==
  /\ pc = "merge"
  /\ result_idx' = Merged(result_idx, up.result_idx, down.result_idx)
  /\ IF k < Len(tagdict[key])
       THEN /\ k' = k + 1
            /\ pc' = "up"
            /\ up' = IF variant = V1 THEN UpInit(tagdict[key][k + 1][1])
                     ELSE UpInit_sj(tagdict[key][k + 1][1])
            /\ down' = IF variant = V1 THEN DownInit(tagdict[key][k + 1][1])
                       ELSE DownInit_sj(tagdict[key][k + 1][1])
       ELSE /\ pc' = "collect"
            /\ UNCHANGED <<k, up, down>>
  /\ UNCHANGED <<variant, lines, tag, fileout, tagdict, key, newtext>>

\* "Get lines by idx" (V1): set, index, join
getLines ==
  /\ pc = "collect" /\ variant = V1
  /\ \E order \in SetIterOrders(result_idx) :
       newtext' = [none |-> FALSE,
                   text |-> Text(order, [i \in 1..Len(order) |-> Line(order[i])])]
  /\ pc' = "return"
  /\ UNCHANGED <<variant, lines, tag, fileout, tagdict, key, k, up, down,
                 result_idx>>

\* "Get lines by idx" (sojusnik): set, sort, index, leftJust, join
getLines_sj ==
  /\ pc = "collect" /\ variant = V2
  /\ LET order == Sorted(ToSet(result_idx))
     IN newtext' = [none |-> FALSE,
                    text |-> Text(order,
                       tp_leftJust([i \in 1..Len(order) |-> Line(order[i])]))]
  /\ pc' = "return"
  /\ UNCHANGED <<variant, lines, tag, fileout, tagdict, key, k, up, down,
                 result_idx>>

\* saveFile: remove an existing file, then write
saveFile(text) == [exists |-> TRUE, written |-> TRUE, header |-> tag, text |-> text]

\* main after extractTag returned
main ==
  /\ pc = "return" /\ variant = V1
  /\ fileout' = saveFile(newtext.text)
  /\ pc' = "done"
  /\ UNCHANGED <<variant, lines, tag, tagdict, key, k, up, down, result_idx,
                 newtext>>

main_sj ==
  /\ pc = "return" /\ variant = V2
  /\ fileout' = IF ~newtext.none THEN saveFile(newtext.text) ELSE fileout
  /\ pc' = "done"
  /\ UNCHANGED <<variant, lines, tag, tagdict, key, k, up, down, result_idx,
                 newtext>>

Next ==
  \/ extractTag_begin
  \/ extractTag_sj_begin
  \/ searchUp
  \/ searchDown
  \/ searchUp_sj
  \/ searchDown_sj
  \/ extend
  \/ getLines
  \/ getLines_sj
  \/ main
  \/ main_sj

Spec == Init /\ [][Next]_vars

TypeOK == pc \in {"main", "up", "down", "merge", "collect", "return", "done", KeyError}


\* ====================================================== properties
Scanning == pc \in {"up", "down", "merge"}

Returned == pc \in {"return", "done"} /\ ~newtext.none

TextIdx == { newtext.text[i].idx : i \in 1..Len(newtext.text) }

UpSet == ToSet(up.result_idx)
DownSet == ToSet(down.result_idx)

Hdr(ii) == IF variant = V1 THEN isHeader(Line(ii)) ELSE tp_isHeader(Line(ii))
Img(ii) == IF variant = V1 THEN isImg(Line(ii)) ELSE tp_isImg(Line(ii))
Blank(ii) == IF variant = V1 THEN isEmpty(Line(ii)) ELSE tp_isEmpty(Line(ii))
Lvl(ii) == space2tab(Line(ii))
Tagged(ii) == Len(findall(Line(ii))) > 0

\* the occurrence line has content that the flat upward scan keeps
KeptBySj(ii) ==
  \/ isCheck(Line(ii))
  \/ tp_isImg(Line(ii))
  \/ ~tp_isEmpty(StripTags(Line(ii)))

C2_Original ==
  pc = "merge" =>
    /\ \A x \in UpSet : \A j \in 0..(lineidx - 1) : Hdr(j) => x >= j
    /\ \A x \in DownSet : \A j \in (lineidx + 1)..(NLines - 1) : Hdr(j) => x < j

\* a heading that the scan reaches as a heading: the classifications tested
\* before the heading test do not apply to it
StopHdrUp(j) ==
  IF variant = V1 THEN isHeader(Line(j)) /\ ~isImg(Line(j))
  ELSE /\ tp_isHeader(Line(j))
       /\ ~isCheck(Line(j))
       /\ ~tp_isImg(Line(j))
       /\ key \notin ToSet(tp_findTags(Line(j)))

StopHdrDown(j) == Hdr(j) /\ ~Img(j)

\* The extent of the failure of C2: the headings that are not also an
\* image/embed (nor, in the flat upward scan, a checkbox line or a line
\* carrying the requested tag) do bound the scan's result.
C2_OtherHeadingsStop ==
  pc = "merge" =>
    /\ \A x \in UpSet : \A j \in 0..(lineidx - 1) : StopHdrUp(j) => x >= j
    /\ \A x \in DownSet :
         \A j \in (lineidx + 1)..(NLines - 1) : StopHdrDown(j) => x < j

StrictlyAscending(t) == \A i \in 1..(Len(t) - 1) : t[i].idx < t[i + 1].idx

\* C3 (as stated): the returned text lists the selected lines in strictly
\* ascending line-index order, each index once.
C3_Original == Returned => StrictlyAscending(newtext.text)

NonBlankOut == { i \in 1..Len(newtext.text) : newtext.text[i].line.toks # <<>> }

\* C4 (as stated): whenever text is returned, the minimum indentation level
\* of its non-blank lines is 0.
C4_Original ==
  (Returned /\ NonBlankOut # {}) =>
    \E i \in NonBlankOut : spclen(newtext.text[i].line) = 0

TagAbsent ==
  \A ll \in 0..(NLines - 1) : Normalize(tag) \notin ToSet(tp_findTags(Line(ll)))

\* C5 (as stated): a requested tag without occurrence makes extractTag return
\* the not-found result, without text and without a thrown failure, and the
\* output file is left as it was.
C5_Original ==
  (TagAbsent /\ pc # "main") =>
    /\ pc \in {"return", "done"}
    /\ newtext.none
    /\ ~fileout.written


Plain(ii) == ~isEmpty(Line(ii)) /\ ~isImg(Line(ii)) /\ ~isHeader(Line(ii))

\* C6 (as stated): the indentation-scoped upward scan never returns a line,
\* other than the occurrence's own, whose level differs from the
\* occurrence's level by 2 or more, whatever the line's classification.
C6_Original ==
  (variant = V1 /\ Scanning) =>
    \A x \in UpSet \ {lineidx} : Abs(Lvl(x) - lvl) < 2 * TabWidth

\* C6 (amended): the bound holds for the lines that reach the level tests,
\* that is the lines that are not blank, image/embed or heading; those three
\* kinds are included whatever their level.
C6_Amended ==
  (variant = V1 /\ Scanning) =>
    \A x \in UpSet \ {lineidx} : Plain(x) => Abs(Lvl(x) - lvl) < 2 * TabWidth

C6_Witness ==
  /\ variant = V1 /\ pc = "merge"
  /\ up.ret = 161
  /\ Len(up.result_idx) = 2
  /\ Plain(lineidx - 1)

Selected(t) ==
  IF variant = V1
    THEN IF t \in DOMAIN findAllTags
           THEN [found |-> TRUE, occs |-> findAllTags[t]]
           ELSE [found |-> FALSE, occs |-> <<>>]
    ELSE IF Normalize(t) \in DOMAIN findAllTags_sj
           THEN [found |-> TRUE, occs |-> findAllTags_sj[Normalize(t)]]
           ELSE [found |-> FALSE, occs |-> <<>>]

\* the other spelling of a requested tag: with or without the sigil
OtherForm(t) == IF t \in TagToks THEN Capture(t) ELSE Sigil \o t

\* what this run has selected
RunSelected ==
  IF key \in DOMAIN tagdict
    THEN [found |-> TRUE, occs |-> tagdict[key]]
    ELSE [found |-> FALSE, occs |-> <<>>]

\* C8 (as stated): the bare name and the sigil form of a tag select the same
\* occurrences, and the keys of the tag index carry the sigil.
C8_Original ==
  pc # "main" =>
    /\ RunSelected = Selected(OtherForm(tag))
    /\ DOMAIN tagdict \subseteq TagToks

\* the downward stretch ends before the first line for which stop(j) holds
StretchEnd(stop(_)) ==
  IF \E j \in (lineidx + 1)..(NLines - 1) : stop(j)
    THEN CHOOSE j \in (lineidx + 1)..(NLines - 1) :
           stop(j) /\ \A j2 \in (lineidx + 1)..(j - 1) : ~stop(j2)
    ELSE NLines

Shallower(j) == ~isEmpty(Line(j)) /\ ~isImg(Line(j)) /\ Lvl(j) < lvl

\* sameblock after the visit of line i
SameBlockAt(i) ==
  \A j \in (lineidx + 1)..i :
    isEmpty(Line(j)) \/ isImg(Line(j)) \/ Abs(Lvl(j) - lvl) < TabWidth

DownExpected(stop(_)) ==
  { i \in (lineidx + 1)..(StretchEnd(stop) - 1) :
      \/ isEmpty(Line(i))
      \/ isImg(Line(i))
      \/ /\ ~isHeader(Line(i))
         /\ Lvl(i) >= lvl
         /\ ~(Tagged(i) /\ SameBlockAt(i)) }

SameLevelIncluded ==
  \A i \in (lineidx + 1)..(NLines - 1) :
    ( /\ Plain(i) /\ ~Tagged(i) /\ Lvl(i) = lvl
      /\ \A j \in (lineidx + 1)..(i - 1) : ~isHeader(Line(j)) /\ Lvl(j) >= lvl )
    => i \in DownSet

Stop9(j) == isHeader(Line(j)) \/ Shallower(j)

\* C9 (as stated): the downward result is the set of blank, image and
\* level >= L lines (tag lines seen while sameblock holds excepted) of the
\* stretch that ends before the first heading or shallower line.
C9_Original ==
  (variant = V1 /\ pc = "merge") =>
    /\ \A x \in DownSet : x > lineidx
    /\ DownSet = DownExpected(Stop9)
    /\ SameLevelIncluded

Stop9Amended(j) == (isHeader(Line(j)) /\ ~isImg(Line(j))) \/ Shallower(j)

\* The extent of the failure of C9: the description is exact when the
\* stretch is taken to end at the first heading that is not an image/embed.
C9_UpToImageHeadings ==
  (variant = V1 /\ pc = "merge") =>
    /\ \A x \in DownSet : x > lineidx
    /\ DownSet = DownExpected(Stop9Amended)
    /\ SameLevelIncluded

AllInteger == \A ll \in 0..(NLines - 1) : Lvl(ll) % TabWidth = 0

\* a visited line with 1 < L - level < 2 that reached the level tests
FractionalSeen ==
  \E j \in (up.ii + 1)..(lineidx - 1) :
    Plain(j) /\ TabWidth < lvl - Lvl(j) /\ lvl - Lvl(j) < 2 * TabWidth

WithinOne(ii) == Abs(Lvl(ii) - lvl) <= TabWidth

\* the parts of C10 about sameblock
C10_SameBlock ==
  (variant = V1 /\ pc = "up") =>
    /\ AllInteger => up.sameblock
    /\ (AllInteger /\ ~up'.sameblock) => up'.ret # 0
    /\ ~up.sameblock => FractionalSeen

C10_FractionalStop ==
  variant = V1 /\ pc = "down" /\ up.ret = 157 /\ WithinOne(up.ii)

====
